---- MODULE Spec2Model ----
(***************************************************************************)
(* vsite: static HTML video gallery generator (generator/generator.go and  *)
(* main.go).  A file name is the sequence of its bytes, a path             *)
(* relative to the scan root is a sequence of names, and the file system   *)
(* below the root is a function from the paths of its files to their       *)
(* contents.  Directories exist through the files below them.              *)
(***************************************************************************)
EXTENDS Integers, Sequences, FiniteSets, TLC

VARIABLES
  rootDir,      \* last segment of the directory given on the command line
  fs,           \* files below the root: path -> content
  videos,       \* Generator.videos of the last run
  dirTree,      \* Generator.dirTree of the last run
  indexPages,   \* IndexData rendered by the last run, per directory
  playerPages,  \* PlayerData rendered by the last run, per video path
  written,      \* output path -> number of os.WriteFile calls of the last run
  toConvert,    \* task list built by the last ConvertVideos
  convLog,      \* encoder invocations of the last ConvertVideos, in order
  convErr,      \* what the last ConvertVideos returned ("none" if not called)
  genErr,       \* what the last Generate returned ("none" if not called)
  lastOp,       \* operation of the last run
  cleanErr,     \* what the last Clean* returned ("none" if not called)
  convWalked,   \* whether the last ConvertVideos reached its filesystem walk
  convArgs,     \* useGPU and the tools' answers of the last ConvertVideos
  exitCode,     \* exit code of the last run of main (-1: library call)
  count,        \* number of files the last Clean* reports as removed
  calls,        \* number of Generate calls on the current Generator
  genPre,       \* history: fs before the Generate that preceded a Clean, or <<>>
  afterConvOk   \* history: the run before the last one was a ConvertVideos
                \* whose encoder invocations all succeeded

vars == <<rootDir, fs, videos, dirTree, indexPages, playerPages, written,
          toConvert, convLog, convErr, genErr, cleanErr, convWalked, convArgs,
          lastOp,
          exitCode, count, calls, genPre, afterConvOk>>

(***************************************************************************)
(* Bounds of the model.                                                    *)
(***************************************************************************)
MaxFiles == 2

MaxFailAt == 2

\* Generate is called at most this many times on one Generator
MaxCalls == 2

(***************************************************************************)
(* Characters and strings.  A character is its byte; a string is a         *)
(* sequence of bytes, compared bytewise as Go compares strings.            *)
(***************************************************************************)
\* the printable ASCII characters, from the space (byte 32) on (byte 96 by name)
Printable ==
  <<" ", "!", "\"", "#", "$", "%", "&", "'", "(", ")", "*", "+", ",", "-", ".", "/",
    "0", "1", "2", "3", "4", "5", "6", "7", "8", "9", ":", ";", "<", "=", ">", "?",
    "@", "A", "B", "C", "D", "E", "F", "G", "H", "I", "J", "K", "L", "M", "N", "O",
    "P", "Q", "R", "S", "T", "U", "V", "W", "X", "Y", "Z", "[", "\\", "]", "^", "_",
    "backquote", "a", "b", "c", "d", "e", "f", "g", "h", "i", "j", "k", "l", "m", "n", "o",
    "p", "q", "r", "s", "t", "u", "v", "w", "x", "y", "z", "{", "|", "}", "~">>

\* the byte of a character
Code(c) == 31 + CHOOSE i \in DOMAIN Printable : Printable[i] = c

\* the string with the given characters
Str(cs) == [i \in DOMAIN cs |-> Code(cs[i])]

LowerA == Code("a")

LowerZ == Code("z")

UpperA == Code("A")

UpperZ == Code("Z")

Digit0 == Code("0")

Digit9 == Code("9")

Underscore == Code("_")

Hyphen == Code("-")

Space == Code(" ")

Dot == Code(".")

\* filepath.Separator
Sep == Code("/")

Range(s) == {s[i] : i \in DOMAIN s}

Min(S) == CHOOSE x \in S : \A y \in S : x <= y

Max(S) == CHOOSE x \in S : \A y \in S : x >= y

\* a < b on Go strings, from byte i on
RECURSIVE StrLessFrom(_, _, _)
StrLessFrom(a, b, i) ==
  IF i > Len(b) THEN FALSE
  ELSE IF i > Len(a) THEN TRUE
  ELSE IF a[i] # b[i] THEN a[i] < b[i]
  ELSE StrLessFrom(a, b, i + 1)

StrLess(a, b) == StrLessFrom(a, b, 1)

\* strings.ToLower
ToLower(s) ==
  [i \in DOMAIN s |->
     IF s[i] >= UpperA /\ s[i] <= UpperZ THEN s[i] + (LowerA - UpperA)
     ELSE s[i]]

\* strings.HasPrefix, strings.HasSuffix, strings.TrimSuffix, strings.TrimPrefix
HasPrefix(s, p) == Len(p) <= Len(s) /\ SubSeq(s, 1, Len(p)) = p

HasSuffix(s, p) == Len(p) <= Len(s) /\ SubSeq(s, Len(s) - Len(p) + 1, Len(s)) = p

TrimSuffix(s, p) == IF HasSuffix(s, p) THEN SubSeq(s, 1, Len(s) - Len(p)) ELSE s

TrimPrefix(s, p) == IF HasPrefix(s, p) THEN SubSeq(s, Len(p) + 1, Len(s)) ELSE s

\* strings.Join(segs, sep): a path as the string the code handles
RECURSIVE Join(_, _)
Join(segs, sep) ==
  IF segs = <<>> THEN <<>>
  ELSE IF Len(segs) = 1 THEN segs[1]
  ELSE segs[1] \o <<sep>> \o Join(Tail(segs), sep)

\* strings.Split(s, sep)
RECURSIVE Split(_, _)
Split(s, sep) ==
  LET at == {i \in DOMAIN s : s[i] = sep}
  IN  IF at = {} THEN <<s>>
      ELSE <<SubSeq(s, 1, Min(at) - 1)>> \o Split(SubSeq(s, Min(at) + 1, Len(s)), sep)

\* strings.ReplaceAll(path, string(filepath.Separator), "_") on a path
ReplaceSep(segs) == Join(segs, Underscore)

\* filepath.Ext: from the final dot of the final element of the path
Ext(name) ==
  LET dots == {i \in DOMAIN name : name[i] = Dot}
  IN  IF dots = {} THEN <<>> ELSE SubSeq(name, Max(dots), Len(name))

\* filepath.Base and filepath.Dir of a relative path; Dir is <<>> where the
\* code turns "." into ""
Base(p) == p[Len(p)]

Dir(p) == SubSeq(p, 1, Len(p) - 1)

\* the path beside p whose last element is name
Sibling(p, name) == Dir(p) \o <<name>>

(***************************************************************************)
(* Extensions and fixed names.                                             *)
(***************************************************************************)
MP4 == Str(<<".", "m", "p", "4">>)

WEBM == Str(<<".", "w", "e", "b", "m">>)

MKV == Str(<<".", "m", "k", "v">>)

AVI == Str(<<".", "a", "v", "i">>)

MOV == Str(<<".", "m", "o", "v">>)

M4V == Str(<<".", "m", "4", "v">>)

OGV == Str(<<".", "o", "g", "v">>)

GP3 == Str(<<".", "3", "g", "p">>)

WMV == Str(<<".", "w", "m", "v">>)

FLV == Str(<<".", "f", "l", "v">>)

videoExtensions == {MP4, WEBM, MKV, AVI, MOV, M4V, OGV, GP3}

needsConversion == {MKV, AVI, MOV, WMV, FLV}

INDEX_HTML == Str(<<"i", "n", "d", "e", "x", ".", "h", "t", "m", "l">>)

STYLE_CSS == Str(<<"s", "t", "y", "l", "e", ".", "c", "s", "s">>)

IndexSuffix == <<Underscore>> \o INDEX_HTML

PlayerPrefix == Str(<<"p", "l", "a", "y", "e", "r", "_">>)

HtmlSuffix == Str(<<".", "h", "t", "m", "l">>)

(***************************************************************************)
(* The file system.                                                        *)
(***************************************************************************)
UserFile == [kind |-> "user", of |-> <<>>]

\* os.Stat(path) succeeds: a file, or a directory holding a file
Stat(f, p) ==
  \/ p \in DOMAIN f
  \/ \E q \in DOMAIN f : Len(q) > Len(p) /\ SubSeq(q, 1, Len(p)) = p

\* os.Remove of a file
Remove(f, p) == [q \in DOMAIN f \ {p} |-> f[q]]

\* os.WriteFile
WriteFile(f, p, c) == [q \in DOMAIN f \cup {p} |-> IF q = p THEN c ELSE f[q]]

\* info.IsDir() && strings.HasPrefix(info.Name(), ".")
Hidden(name) == HasPrefix(name, <<Dot>>)

\* the order in which filepath.Walk visits: names sorted within each directory
RECURSIVE PathLessFrom(_, _, _)
PathLessFrom(p, q, i) ==
  IF i > Len(q) THEN FALSE
  ELSE IF i > Len(p) THEN TRUE
  ELSE IF p[i] # q[i] THEN StrLess(p[i], q[i])
  ELSE PathLessFrom(p, q, i + 1)

PathLess(p, q) == PathLessFrom(p, q, 1)

SortPaths(S) ==
  LET rank == [p \in S |-> Cardinality({q \in S : PathLess(q, p)})]
  IN  [i \in 1..Cardinality(S) |-> CHOOSE p \in S : rank[p] = i - 1]

\* a variant of WalkSkipHidden that never answers SkipDir
WalkNoSkip(root, f) == SortPaths(DOMAIN f)

\* the files the callback of filepath.Walk(root) is called with, in order: the
\* walk starts at the root itself, and a directory the callback answers
\* SkipDir for is not entered
WalkSkipHidden(root, f) ==
  SortPaths({p \in DOMAIN f :
               /\ ~Hidden(root)
               /\ \A i \in 1..(Len(p) - 1) : ~Hidden(p[i])})

(***************************************************************************)
(* Generator: New, scanVideos and the page generation.                     *)
(***************************************************************************)
\* New: an empty catalog
New == [videos |-> <<>>, dirTree |-> <<>>]

\* g.dirTree[dir] of a Go map: the zero value for a missing key
Lookup(dt, d) == IF d \in DOMAIN dt THEN dt[d] ELSE <<>>

\* sanitizeFileName
RECURSIVE sanitizeFileName(_)
sanitizeFileName(name) ==
  IF name = <<>> THEN <<>>
  ELSE LET r == Head(name)
       IN  IF \/ (r >= LowerA /\ r <= LowerZ)
              \/ (r >= UpperA /\ r <= UpperZ)
              \/ (r >= Digit0 /\ r <= Digit9)
              \/ r = Underscore
              \/ r = Hyphen
             THEN <<r>> \o sanitizeFileName(Tail(name))
           ELSE IF r = Space THEN <<Underscore>> \o sanitizeFileName(Tail(name))
           ELSE sanitizeFileName(Tail(name))

\* generatePlayerFileName
generatePlayerFileName(relPath) ==
  LET name == ReplaceSep(relPath)
  IN  PlayerPrefix \o sanitizeFileName(TrimSuffix(name, Ext(name))) \o HtmlSuffix

\* scanVideos: whether the "needs conversion" candidate at path is dropped
\* because its MP4 exists
Mp4Exists(f, path, ext) ==
  Stat(f, Sibling(path, TrimSuffix(Base(path), ext) \o MP4))

\* scanVideos: the callback of the walk, for the file at path
scanVisit(f, path, g) ==
  LET ext == ToLower(Ext(Base(path)))
      dir == Dir(path)
      video == [Name |-> TrimSuffix(Base(path), ext),
                FileName |-> Base(path),
                RelativePath |-> path,
                Extension |-> ext,
                Directory |-> dir,
                PlayerPage |-> generatePlayerFileName(path)]
  IN  IF ext \notin videoExtensions THEN g
      ELSE IF ext \in needsConversion /\ Mp4Exists(f, path, ext) THEN g
      ELSE [videos |-> Append(g.videos, video),
            dirTree |-> [d \in DOMAIN g.dirTree \cup {dir} |->
                           IF d = dir THEN Append(Lookup(g.dirTree, dir), video)
                           ELSE g.dirTree[d]]]

\* scanVideos: the walk, which stops with an error at entry failAt (0: no
\* entry fails)
RECURSIVE scanFrom(_, _, _, _, _)
scanFrom(walk, i, f, failAt, g) ==
  IF i > Len(walk) THEN [err |-> FALSE, g |-> g]
  ELSE IF i = failAt THEN [err |-> TRUE, g |-> g]
  ELSE scanFrom(walk, i + 1, f, failAt, scanVisit(f, walk[i], g))

scanVideos(root, f, failAt, g) == scanFrom(WalkSkipHidden(root, f), 1, f, failAt, g)

\* generateIndexPages: the loop that inserts a directory and its ancestors
RECURSIVE Ancestors(_)
Ancestors(dir) == IF dir = <<>> THEN {} ELSE {dir} \cup Ancestors(Dir(dir))

\* a variant of RequiredDirs without the loop over the ancestors
RequiredDirsOwnersOnly(vs) == {<<>>} \cup {vs[i].Directory : i \in DOMAIN vs}

\* generateIndexPages: the directories that get a listing page
RequiredDirs(vs) == {<<>>} \cup UNION {Ancestors(vs[i].Directory) : i \in DOMAIN vs}

\* the listing filename of a non-root directory
IndexFileName(dir) ==
  IF dir = <<>> THEN INDEX_HTML ELSE ReplaceSep(dir) \o IndexSuffix

\* a variant of SubDirs that matches the prefix without the separator
SubDirsNoSeparator(dir, dt) ==
  {IF dir = <<>>
     THEN Split(Join(d, Sep), Sep)[1]
     ELSE Split(TrimPrefix(Join(d, Sep), Join(dir, Sep) \o <<Sep>>), Sep)[1] :
   d \in {d \in DOMAIN dt \ {dir} :
            dir = <<>> \/ HasPrefix(Join(d, Sep), Join(dir, Sep))}}

\* generateIndexPage: the immediate subdirectories of dir
SubDirs(dir, dt) ==
  {IF dir = <<>>
     THEN Split(Join(d, Sep), Sep)[1]
     ELSE Split(TrimPrefix(Join(d, Sep), Join(dir, Sep) \o <<Sep>>), Sep)[1] :
   d \in {d \in DOMAIN dt \ {dir} :
            dir = <<>> \/ HasPrefix(Join(d, Sep), Join(dir, Sep) \o <<Sep>>)}}

SortNames(S) ==
  LET rank == [a \in S |-> Cardinality({b \in S : StrLess(b, a)})]
  IN  [i \in 1..Cardinality(S) |-> CHOOSE a \in S : rank[a] = i - 1]

\* sort.Slice by Name is not stable: any order that is sorted by Name
SortedOrders(s) ==
  {t \in {[i \in 1..Len(s) |-> s[p[i]]] : p \in Permutations(1..Len(s))} :
     \A i \in 1..(Len(t) - 1) : ~StrLess(t[i + 1].Name, t[i].Name)}

\* the functions on D that map each x to an element of F[x]
RECURSIVE ChoicesOver(_, _)
ChoicesOver(F, D) ==
  IF D = {} THEN {<<>>}
  ELSE LET x == CHOOSE y \in D : TRUE
       IN  {[z \in DOMAIN c \cup {x} |-> IF z = x THEN v ELSE c[z]] :
              c \in ChoicesOver(F, D \ {x}), v \in F[x]}

\* the outcomes of sorting every g.dirTree[dir] in place
SortedTrees(dt) == ChoicesOver([d \in DOMAIN dt |-> SortedOrders(dt[d])], DOMAIN dt)

\* generateIndexPage: the parent link
ParentPath(dir) ==
  IF dir = <<>> THEN <<>>
  ELSE IF Dir(dir) = <<>> THEN INDEX_HTML
  ELSE ReplaceSep(Dir(dir)) \o IndexSuffix

\* generateIndexPage: IndexData and the name of the file it is written to;
\* dt is g.dirTree with dt[dir] sorted
generateIndexPage(dir, dt) ==
  LET names == SortNames(SubDirs(dir, dt))
  IN  [CurrentPath |-> dir,
       ParentPath |-> ParentPath(dir),
       HasParent |-> dir # <<>>,
       Directories |-> [i \in DOMAIN names |->
                          [Name |-> names[i],
                           Path |-> ReplaceSep(dir \o <<names[i]>>) \o IndexSuffix]],
       Videos |-> Lookup(dt, dir),
       FileName |-> IndexFileName(dir)]

\* a variant of generatePlayerPage whose links wrap around at both ends
generatePlayerPageWrap(video, dt) ==
  LET dirVideos == Lookup(dt, video.Directory)
      at == {j \in DOMAIN dirVideos : dirVideos[j].RelativePath = video.RelativePath}
      j == IF at = {} THEN 0 ELSE Min(at)
      n == Len(dirVideos)
  IN  [Title |-> video.Name,
       BackLink |-> IF video.Directory = <<>> THEN INDEX_HTML
                    ELSE ReplaceSep(video.Directory) \o IndexSuffix,
       HasPrev |-> j >= 1,
       PrevVideo |-> IF j >= 1 THEN dirVideos[IF j = 1 THEN n ELSE j - 1].PlayerPage
                     ELSE <<>>,
       HasNext |-> j >= 1,
       NextVideo |-> IF j >= 1 THEN dirVideos[IF j = n THEN 1 ELSE j + 1].PlayerPage
                     ELSE <<>>,
       FileName |-> video.PlayerPage]

\* generatePlayerPage: PlayerData and the name of the file it is written to
generatePlayerPage(video, dt) ==
  LET dirVideos == Lookup(dt, video.Directory)
      at == {j \in DOMAIN dirVideos : dirVideos[j].RelativePath = video.RelativePath}
      j == IF at = {} THEN 0 ELSE Min(at)
      hasPrev == j > 1
      hasNext == j >= 1 /\ j < Len(dirVideos)
  IN  [Title |-> video.Name,
       BackLink |-> IF video.Directory = <<>> THEN INDEX_HTML
                    ELSE ReplaceSep(video.Directory) \o IndexSuffix,
       HasPrev |-> hasPrev,
       PrevVideo |-> IF hasPrev THEN dirVideos[j - 1].PlayerPage ELSE <<>>,
       HasNext |-> hasNext,
       NextVideo |-> IF hasNext THEN dirVideos[j + 1].PlayerPage ELSE <<>>,
       FileName |-> video.PlayerPage]

\* filepath.Join(g.outputDir, fileName), relative to the root
OutPath(fileName) == Split(fileName, Sep)

\* generatePlayerPages: the files written, in the order of g.videos
RECURSIVE WritePlayers(_, _, _)
WritePlayers(f, vs, i) ==
  IF i > Len(vs) THEN f
  ELSE WritePlayers(WriteFile(f, OutPath(vs[i].PlayerPage),
                              [kind |-> "player", of |-> vs[i].RelativePath]),
                    vs, i + 1)

\* the files the listing pages are written to
IndexFiles(dirs) == {IndexFileName(d) : d \in dirs}

\* generateIndexPages ranges over a map: when two directories have the same
\* listing filename, either may be written last
IndexWinners(dirs) ==
  ChoicesOver([n \in IndexFiles(dirs) |-> {d \in dirs : IndexFileName(d) = n}],
              IndexFiles(dirs))

\* Generate from generateIndexPages on: the listing pages and the player
\* pages of the catalog vs.  sorted is the outcome of the sorts and winner the
\* last writer of each listing file.
WritePages(f, vs, sorted, winner) ==
  LET dirs == RequiredDirs(vs)
      f1 == [p \in DOMAIN f \cup {OutPath(n) : n \in IndexFiles(dirs)} |->
               IF \E n \in IndexFiles(dirs) : OutPath(n) = p
                 THEN [kind |-> "index",
                       of |-> winner[CHOOSE n \in IndexFiles(dirs) : OutPath(n) = p]]
                 ELSE f[p]]
      outs == {OutPath(IndexFileName(d)) : d \in dirs}
                \cup {OutPath(vs[i].PlayerPage) : i \in DOMAIN vs}
  IN  [err |-> "nil",
       g |-> [videos |-> vs, dirTree |-> sorted],
       fs |-> WritePlayers(f1, vs, 1),
       indexPages |-> [d \in dirs |-> generateIndexPage(d, sorted)],
       playerPages |-> [p \in {vs[i].RelativePath : i \in DOMAIN vs} |->
                          generatePlayerPage(
                            vs[CHOOSE i \in DOMAIN vs : vs[i].RelativePath = p],
                            sorted)],
       written |-> [o \in outs |->
                      Cardinality({d \in dirs : OutPath(IndexFileName(d)) = o})
                      + Cardinality({i \in DOMAIN vs : OutPath(vs[i].PlayerPage) = o})]]

\* a variant of GeneratePages that writes the pages of what the scan found
\* before it looks at the scan's error
GeneratePagesThenCheck(f, scan, sorted, winner) ==
  LET vs == scan.g.videos
      w == WritePages(f, vs, sorted, winner)
  IN  IF Len(vs) = 0 THEN
        [err |-> IF scan.err THEN "scan" ELSE "no videos", g |-> scan.g, fs |-> f,
         indexPages |-> <<>>, playerPages |-> <<>>, written |-> <<>>]
      ELSE [w EXCEPT !.err = IF scan.err THEN "scan" ELSE "nil"]

\* Generate after the scan: nothing is written unless the scan succeeded and
\* found a video.
GeneratePages(f, scan, sorted, winner) ==
  LET vs == scan.g.videos
  IN  IF scan.err THEN
        [err |-> "scan", g |-> scan.g, fs |-> f, indexPages |-> <<>>,
         playerPages |-> <<>>, written |-> <<>>]
      ELSE IF Len(vs) = 0 THEN
        [err |-> "no videos", g |-> scan.g, fs |-> f, indexPages |-> <<>>,
         playerPages |-> <<>>, written |-> <<>>]
      ELSE WritePages(f, vs, sorted, winner)

(***************************************************************************)
(* Clean, CleanConverted, CleanOriginal.                                   *)
(***************************************************************************)
\* Clean: the patterns of generated files, as prefix * suffix
CleanPatterns ==
  <<[star |-> FALSE, pre |-> INDEX_HTML, suf |-> <<>>],
    [star |-> FALSE, pre |-> STYLE_CSS, suf |-> <<>>],
    [star |-> TRUE, pre |-> <<>>, suf |-> IndexSuffix],
    [star |-> TRUE, pre |-> PlayerPrefix, suf |-> HtmlSuffix]>>

\* a variant of Match in which * matches the empty string only
MatchLiteral(pat, name) == name = pat.pre \o pat.suf

\* filepath.Match for these patterns
Match(pat, name) ==
  IF pat.star
    THEN /\ HasPrefix(name, pat.pre)
         /\ HasSuffix(name, pat.suf)
         /\ Len(name) >= Len(pat.pre) + Len(pat.suf)
    ELSE name = pat.pre

\* filepath.Glob(filepath.Join(g.rootDir, pattern)): entries of the root, sorted
Glob(f, pat) == SortNames({p[1] : p \in {q \in DOMAIN f : Match(pat, q[1])}})

\* Clean: the removal of the matches of one pattern; os.Remove fails on a
\* directory that holds files
RECURSIVE RemoveMatches(_, _, _)
RemoveMatches(f, matches, i) ==
  IF i > Len(matches) THEN [err |-> "nil", fs |-> f]
  ELSE IF <<matches[i]>> \notin DOMAIN f THEN [err |-> "remove", fs |-> f]
  ELSE RemoveMatches(Remove(f, <<matches[i]>>), matches, i + 1)

RECURSIVE CleanFrom(_, _)
CleanFrom(f, k) ==
  IF k > Len(CleanPatterns) THEN [err |-> "nil", fs |-> f]
  ELSE LET r == RemoveMatches(f, Glob(f, CleanPatterns[k]), 1)
       IN  IF r.err # "nil" THEN r ELSE CleanFrom(r.fs, k + 1)

Clean(f) == CleanFrom(f, 1)

originalExtensions == <<AVI, MKV, MOV, WMV, FLV>>

\* CleanConverted: the callback of the walk, for the file at path
cleanConvertedVisit(f, path) ==
  LET ext == ToLower(Ext(Base(path)))
      basePath == TrimSuffix(Base(path), ext)
  IN  IF ext # MP4 THEN f
      ELSE IF \E k \in DOMAIN originalExtensions :
                Stat(f, Sibling(path, basePath \o originalExtensions[k]))
        THEN Remove(f, path)
      ELSE f

RECURSIVE cleanConvertedFrom(_, _, _, _)
cleanConvertedFrom(walk, i, f, failAt) ==
  IF i > Len(walk) THEN [err |-> "nil", fs |-> f]
  ELSE IF i = failAt THEN [err |-> "walk", fs |-> f]
  ELSE cleanConvertedFrom(walk, i + 1, cleanConvertedVisit(f, walk[i]), failAt)

\* the count a Clean* returns
Removed(f, r) == Cardinality(DOMAIN f \ DOMAIN r.fs)

CleanConverted(root, f, failAt) ==
  cleanConvertedFrom(WalkSkipHidden(root, f), 1, f, failAt)

\* CleanOriginal: the callback of the walk, for the file at path
cleanOriginalVisit(f, path) ==
  LET ext == ToLower(Ext(Base(path)))
  IN  IF ext \notin Range(originalExtensions) THEN f
      ELSE IF Stat(f, Sibling(path, TrimSuffix(Base(path), ext) \o MP4))
        THEN Remove(f, path)
      ELSE f

RECURSIVE cleanOriginalFrom(_, _, _, _)
cleanOriginalFrom(walk, i, f, failAt) ==
  IF i > Len(walk) THEN [err |-> "nil", fs |-> f]
  ELSE IF i = failAt THEN [err |-> "walk", fs |-> f]
  ELSE cleanOriginalFrom(walk, i + 1, cleanOriginalVisit(f, walk[i]), failAt)

CleanOriginal(root, f, failAt) ==
  cleanOriginalFrom(WalkSkipHidden(root, f), 1, f, failAt)

(***************************************************************************)
(* ConvertVideos.                                                          *)
(***************************************************************************)
\* what the external tools answer: exec.LookPath("ffmpeg"),
\* exec.LookPath("nvidia-smi"), the nvidia-smi query and its output, and the
\* ffmpeg encoder list
EnvFields == {"ffmpeg", "smi", "query", "device", "encoders", "nvenc"}

\* every tool answers, or exactly one of them does not
Environments == {[x \in EnvFields |-> x # bad] : bad \in EnvFields \cup {"none"}}

EnvOk == [x \in EnvFields |-> TRUE]

\* the environments a run with or without --gpu is explored in: without --gpu
\* the GPU tools are never consulted, so the one where they answer stands for
\* all of those where ffmpeg is found
RunEnvironments(useGPU) ==
  IF useGPU THEN Environments ELSE {e \in Environments : e = EnvOk \/ ~e.ffmpeg}

\* checkNvidiaGPU
checkNvidiaGPU(env) ==
  IF ~env.smi THEN "gpu: nvidia-smi not found"
  ELSE IF ~env.query THEN "gpu: query error"
  ELSE IF ~env.device THEN "gpu: no device"
  ELSE IF ~env.encoders THEN "gpu: encoders error"
  ELSE IF ~env.nvenc THEN "gpu: no nvenc"
  ELSE "nil"

\* ConvertVideos: the callback of the walk that builds toConvert
convertVisit(f, path, tasks) ==
  LET ext == ToLower(Ext(Base(path)))
  IN  IF ext \notin needsConversion THEN tasks
      ELSE IF Stat(f, Sibling(path, TrimSuffix(Base(path), ext) \o MP4)) THEN tasks
      ELSE Append(tasks, path)

RECURSIVE convertWalk(_, _, _, _, _)
convertWalk(walk, i, f, failAt, tasks) ==
  IF i > Len(walk) THEN [err |-> FALSE, tasks |-> tasks]
  ELSE IF i = failAt THEN [err |-> TRUE, tasks |-> tasks]
  ELSE convertWalk(walk, i + 1, f, failAt, convertVisit(f, walk[i], tasks))

\* ConvertVideos: the target of a task in the conversion loop
TargetPath(videoPath) ==
  Sibling(videoPath, TrimSuffix(Base(videoPath), Ext(Base(videoPath))) \o MP4)

\* a variant of FailedTask that leaves what ffmpeg wrote
FailedTaskKeepsPartial(f, src, mp4Path) ==
  WriteFile(f, mp4Path, [kind |-> "partial", of |-> src])

\* ConvertVideos: cmd.Run() returned an error, possibly after ffmpeg wrote a
\* part of the output; os.Remove(mp4Path) and continue
FailedTask(f, src, mp4Path) ==
  Remove(WriteFile(f, mp4Path, [kind |-> "partial", of |-> src]), mp4Path)

\* ConvertVideos: the conversion loop from task i on; fails is the set of
\* tasks whose encoder run fails
RECURSIVE convertLoop(_, _, _, _, _, _)
convertLoop(tasks, i, f, useGPU, fails, log) ==
  IF i > Len(tasks) THEN [fs |-> f, log |-> log]
  ELSE LET mp4Path == TargetPath(tasks[i])
           f1 == IF i \in fails
                   THEN FailedTask(f, tasks[i], mp4Path)
                   ELSE WriteFile(f, mp4Path, [kind |-> "enc", of |-> tasks[i]])
       IN  convertLoop(tasks, i + 1, f1, useGPU, fails,
                       Append(log, [src |-> tasks[i],
                                    target |-> mp4Path,
                                    profile |-> IF useGPU THEN "gpu" ELSE "cpu",
                                    ok |-> i \notin fails,
                                    targetAfter |-> Stat(f1, mp4Path)]))

\* the task list ConvertVideos builds when the walk does not fail
Tasks(root, f) == convertWalk(WalkSkipHidden(root, f), 1, f, 0, <<>>).tasks

\* a variant of ConvertPrecheck that goes on when the GPU probe fails
ConvertPrecheckFallback(useGPU, env) ==
  IF ~env.ffmpeg THEN "ffmpeg not found" ELSE "nil"

\* ConvertVideos: the checks made before the walk
ConvertPrecheck(useGPU, env) ==
  IF ~env.ffmpeg THEN "ffmpeg not found"
  ELSE IF useGPU THEN checkNvidiaGPU(env)
  ELSE "nil"

ConvertVideos(root, f, useGPU, env, failAt, fails) ==
  LET pre == ConvertPrecheck(useGPU, env)
      w == convertWalk(WalkSkipHidden(root, f), 1, f, failAt, <<>>)
      run == convertLoop(w.tasks, 1, f, useGPU, fails, <<>>)
  IN  IF pre # "nil" THEN
        [err |-> pre, walked |-> FALSE, toConvert |-> <<>>, log |-> <<>>, fs |-> f]
      ELSE IF w.err THEN
        [err |-> "walk", walked |-> TRUE, toConvert |-> w.tasks, log |-> <<>>,
         fs |-> f]
      ELSE
        [err |-> "nil", walked |-> TRUE, toConvert |-> w.tasks, log |-> run.log,
         fs |-> run.fs]

(***************************************************************************)
(* The state machine: every run of main (main.go) creates a Generator with *)
(* New and performs one mode; CleanOriginal is reached only as a library   *)
(* call.                                                                   *)
(***************************************************************************)
\* names of the root directory: a plain name, "." and a name starting with "."
RootNames == {Str(<<"v">>), Str(<<".">>), Str(<<".", "r">>)}

\* the files a root may hold before the first run
Universe ==
  {<<Str(<<"a">>) \o MP4>>,
   <<Str(<<"a">>) \o AVI>>,
   <<Str(<<"a">>) \o MKV>>,
   <<Str(<<"a">>) \o WEBM>>,
   <<Str(<<"a", ".", "M", "P", "4">>)>>,
   <<Str(<<"B", ".", "M", "K", "V">>)>>,
   <<Str(<<"s">>), Str(<<"b">>) \o MKV>>,
   <<Str(<<"s">>), Str(<<"t">>), Str(<<"c">>) \o MP4>>,
   <<Str(<<"s", "_", "t">>), Str(<<"c">>) \o MP4>>,
   <<Str(<<".", "h">>), Str(<<"d">>) \o AVI>>,
   <<INDEX_HTML>>,
   <<Str(<<"n", ".", "t", "x", "t">>)>>,
   <<Str(<<"a">>) \o WMV>>,
   <<Str(<<"s", " ", "t">>), Str(<<".", "e">>) \o MP4>>}

NoGen == [set |-> FALSE, fs |-> <<>>]

Init ==
  /\ rootDir \in RootNames
  /\ \E S \in SUBSET Universe :
       /\ Cardinality(S) <= MaxFiles
       /\ fs = [p \in S |-> UserFile]
  /\ videos = <<>>
  /\ dirTree = <<>>
  /\ indexPages = <<>>
  /\ playerPages = <<>>
  /\ written = <<>>
  /\ toConvert = <<>>
  /\ convLog = <<>>
  /\ convErr = "none"
  /\ genErr = "none"
  /\ cleanErr = "none"
  /\ convWalked = FALSE
  /\ convArgs = [useGPU |-> FALSE, env |-> <<>>]
  /\ lastOp = "init"
  /\ exitCode = 0
  /\ count = 0
  /\ calls = 0
  /\ genPre = NoGen
  /\ afterConvOk = FALSE

\* the entry at which a walk may report an error (0: none)
WalkFailures(f) ==
  LET n == Len(WalkSkipHidden(rootDir, f))
  IN  0..(IF n < MaxFailAt THEN n ELSE MaxFailAt)

NoGenerate ==
  /\ videos' = <<>>
  /\ dirTree' = <<>>
  /\ indexPages' = <<>>
  /\ playerPages' = <<>>
  /\ written' = <<>>
  /\ genErr' = "none"
  /\ calls' = 0

NoArgs == [useGPU |-> FALSE, env |-> <<>>]

NoConvert ==
  /\ convArgs' = NoArgs
  /\ toConvert' = <<>>
  /\ convLog' = <<>>
  /\ convErr' = "none"
  /\ convWalked' = FALSE
  /\ afterConvOk' = FALSE

\* main: --clean
MainClean ==
  \E r \in {Clean(fs)} :
      /\ fs' = r.fs
      /\ cleanErr' = r.err
      /\ count' = Removed(fs, r)
      /\ exitCode' = IF r.err = "nil" THEN 0 ELSE 1
      /\ lastOp' = "clean"
      /\ genPre' = IF lastOp \in {"generate", "convert"} /\ genErr = "nil"
                     THEN genPre ELSE NoGen
      /\ NoGenerate
      /\ NoConvert
      /\ UNCHANGED rootDir

\* main: --clean-converted (without --clean)
MainCleanConverted ==
  \E failAt \in WalkFailures(fs) :
    \E r \in {CleanConverted(rootDir, fs, failAt)} :
        /\ fs' = r.fs
        /\ cleanErr' = r.err
        /\ count' = Removed(fs, r)
        /\ exitCode' = IF r.err = "nil" THEN 0 ELSE 1
        /\ lastOp' = "cleanConverted"
        /\ genPre' = NoGen
        /\ NoGenerate
        /\ NoConvert
        /\ UNCHANGED rootDir

\* a library call of CleanOriginal on a new Generator
CallCleanOriginal ==
  \E failAt \in WalkFailures(fs) :
    \E r \in {CleanOriginal(rootDir, fs, failAt)} :
        /\ fs' = r.fs
        /\ cleanErr' = r.err
        /\ count' = Removed(fs, r)
        /\ exitCode' = -1
        /\ lastOp' = "cleanOriginal"
        /\ genPre' = NoGen
        /\ NoGenerate
        /\ NoConvert
        /\ UNCHANGED rootDir

\* main: gen.Generate() of a new Generator on file system f, and the exit code
GenerateStep(f) ==
  \E failAt \in WalkFailures(f) :
    \E scan \in {scanVideos(rootDir, f, failAt, New)} :
        \E sorted \in SortedTrees(scan.g.dirTree) :
        \E winner \in IndexWinners(RequiredDirs(scan.g.videos)) :
          \E gen \in {GeneratePages(f, scan, sorted, winner)} :
              /\ fs' = gen.fs
              /\ videos' = gen.g.videos
              /\ dirTree' = gen.g.dirTree
              /\ indexPages' = gen.indexPages
              /\ playerPages' = gen.playerPages
              /\ written' = gen.written
              /\ genErr' = gen.err
              /\ genPre' = IF gen.err = "nil" THEN [set |-> TRUE, fs |-> f] ELSE NoGen
              /\ exitCode' = IF gen.err = "nil" THEN 0 ELSE 1
              /\ calls' = 1

\* main: no mode flag
MainGenerate ==
  /\ GenerateStep(fs)
  /\ lastOp' = "generate"
  /\ cleanErr' = "none"
  /\ count' = 0
  /\ NoConvert
  /\ UNCHANGED rootDir

\* main: --convert, and ConvertVideos returns an error
MainConvertFatal ==
  \E useGPU \in BOOLEAN :
  \E env \in RunEnvironments(useGPU) :
  \E failAt \in (IF ConvertPrecheck(useGPU, env) # "nil" THEN {0}
                 ELSE WalkFailures(fs) \ {0}) :
    \E conv \in {ConvertVideos(rootDir, fs, useGPU, env, failAt, {})} :
        /\ conv.err # "nil"
        /\ fs' = conv.fs
        /\ toConvert' = conv.toConvert
        /\ convLog' = conv.log
        /\ convErr' = conv.err
        /\ convWalked' = conv.walked
        /\ convArgs' = [useGPU |-> useGPU, env |-> env]
        /\ afterConvOk' = FALSE
        /\ exitCode' = 1
        /\ lastOp' = "convert"
        /\ cleanErr' = "none"
        /\ count' = 0
        /\ genPre' = NoGen
        /\ NoGenerate
        /\ UNCHANGED rootDir

\* main: --convert, ConvertVideos returns nil and Generate runs
MainConvert ==
  \E useGPU \in BOOLEAN :
  \E env \in RunEnvironments(useGPU) :
    /\ ConvertPrecheck(useGPU, env) = "nil"
    /\ \E fails \in SUBSET (1..Len(Tasks(rootDir, fs))) :
         \E conv \in {ConvertVideos(rootDir, fs, useGPU, env, 0, fails)} :
             /\ convArgs' = [useGPU |-> useGPU, env |-> env]
             /\ toConvert' = conv.toConvert
             /\ convLog' = conv.log
             /\ convErr' = conv.err
             /\ convWalked' = conv.walked
             /\ afterConvOk' = (/\ lastOp = "convert"
                                /\ convErr = "nil"
                                /\ \A i \in DOMAIN convLog : convLog[i].ok)
             /\ \E f \in {conv.fs} : GenerateStep(f)
    /\ lastOp' = "convert"
    /\ cleanErr' = "none"
    /\ count' = 0
    /\ UNCHANGED rootDir

Next ==
  \/ MainClean
  \/ MainCleanConverted
  \/ MainGenerate
  \/ MainConvertFatal
  \/ MainConvert
  \/ CallCleanOriginal

Spec == Init /\ [][Next]_vars

\* a caller of the package: g.Generate() once more on the Generator of the
\* last run, whose videos and dirTree hold what the earlier calls left
CallGenerateAgain ==
  /\ calls >= 1
  /\ calls < MaxCalls
  /\ \E failAt \in WalkFailures(fs) :
       \E scan \in {scanVideos(rootDir, fs, failAt,
                                [videos |-> videos, dirTree |-> dirTree])} :
         \E sorted \in SortedTrees(scan.g.dirTree) :
         \E winner \in IndexWinners(RequiredDirs(scan.g.videos)) :
           \E gen \in {GeneratePages(fs, scan, sorted, winner)} :
             /\ fs' = gen.fs
             /\ videos' = gen.g.videos
             /\ dirTree' = gen.g.dirTree
             /\ indexPages' = gen.indexPages
             /\ playerPages' = gen.playerPages
             /\ written' = gen.written
             /\ genErr' = gen.err
  /\ calls' = calls + 1
  /\ lastOp' = "generateAgain"
  /\ exitCode' = -1
  /\ cleanErr' = "none"
  /\ count' = 0
  /\ genPre' = NoGen
  /\ NoConvert
  /\ UNCHANGED rootDir

\* a program that builds one Generator and calls Generate on it repeatedly
NextReuse ==
  \/ MainGenerate
  \/ CallGenerateAgain

SpecReuse == Init /\ [][NextReuse]_vars

(***************************************************************************)
(* Properties.                                                             *)
(***************************************************************************)
\* the last run ended with a successful Generate; genPre.fs is then the file
\* system Generate scanned
Generated == lastOp \in {"generate", "convert"} /\ genErr = "nil"

\* a file name without its extension
Stem(name) == SubSeq(name, 1, Len(name) - Len(Ext(name)))

\* a file that is in no hidden directory
Visible(p) == ~Hidden(rootDir) /\ \A i \in 1..(Len(p) - 1) : ~Hidden(p[i])

\* the directories that own a catalog video, and they with their ancestors
Owners == {videos[i].Directory : i \in DOMAIN videos}

Closure == {<<>>} \cup UNION {{SubSeq(d, 1, k) : k \in 1..Len(d)} : d \in Owners}

\* the flattened relative path of a video: separators replaced, no extension
FlatName(p) == ReplaceSep(Dir(p) \o <<Stem(Base(p))>>)

\* C1: after a scan, for every directory outside hidden directories that holds
\* an original name.<ext>, <ext> a needs-conversion extension, and name.mp4,
\* the catalog has exactly one entry for the pair, and its extension is .mp4.
C1_Dedup ==
  Generated =>
    \A p \in DOMAIN genPre.fs :
      (/\ Visible(p)
       /\ ToLower(Ext(Base(p))) \in needsConversion
       /\ Sibling(p, Stem(Base(p)) \o MP4) \in DOMAIN genPre.fs)
      => LET pair == {p, Sibling(p, Stem(Base(p)) \o MP4)}
             es == {i \in DOMAIN videos : videos[i].RelativePath \in pair}
         IN  /\ Cardinality(es) = 1
             /\ \A i \in es : videos[i].Extension = MP4

\* C2: after a successful Generate the files written are exactly index.html,
\* style.css, <flattened-path>_index.html per non-root required directory and
\* player_<flattened-relative-path>.html per catalog video, each of them a
\* direct child of the root.
C2_Layout ==
  Generated =>
    /\ DOMAIN written =
         {<<INDEX_HTML>>, <<STYLE_CSS>>}
           \cup {<<ReplaceSep(d) \o IndexSuffix>> : d \in Closure \ {<<>>}}
           \cup {<<PlayerPrefix \o FlatName(videos[i].RelativePath) \o HtmlSuffix>> :
                   i \in DOMAIN videos}
    /\ \A o \in DOMAIN written : Len(o) = 1 /\ o \in DOMAIN fs

\* C3: the directories that get a listing page are exactly the root, the
\* directories that own a catalog video and all their ancestors; the parent
\* link of a non-root page is index.html below the root and otherwise the
\* listing filename of its parent directory, which has a page of the same run;
\* the root page has no parent link.
C3_Closure ==
  Generated =>
    /\ DOMAIN indexPages = Closure
    /\ \A d \in DOMAIN indexPages : OutPath(indexPages[d].FileName) \in DOMAIN written
    /\ ~indexPages[<<>>].HasParent
    /\ indexPages[<<>>].ParentPath = <<>>
    /\ \A d \in DOMAIN indexPages \ {<<>>} :
         /\ indexPages[d].HasParent
         /\ Dir(d) \in DOMAIN indexPages
         /\ indexPages[d].ParentPath = indexPages[Dir(d)].FileName
         /\ Len(d) = 1 => indexPages[d].ParentPath = INDEX_HTML

\* C3, witness: a page for a directory that owns no video, linked as the parent
\* of a directory two levels below the root.
C3_Witness ==
  /\ Generated
  /\ \E d \in DOMAIN indexPages :
       /\ Len(d) = 2
       /\ d \in Owners
       /\ Dir(d) \notin Owners
       /\ Dir(d) \in DOMAIN indexPages
       /\ indexPages[d].ParentPath = ReplaceSep(Dir(d)) \o IndexSuffix

\* C4: in every directory, with its videos in the order its listing page shows
\* (sorted by display name), the first player page has no previous link, the
\* last has no next link, and every other link is the player page of the
\* neighbour in that order, a video of the same directory.
C4_Navigation ==
  Generated =>
    \A d \in DOMAIN indexPages :
      LET L == indexPages[d].Videos
      IN  /\ \A i \in 1..(Len(L) - 1) : ~StrLess(L[i + 1].Name, L[i].Name)
          /\ {L[i].RelativePath : i \in DOMAIN L}
               = {videos[k].RelativePath : k \in {k \in DOMAIN videos : videos[k].Directory = d}}
          /\ \A i \in DOMAIN L :
               LET pp == playerPages[L[i].RelativePath]
               IN  /\ L[i].Directory = d
                   /\ pp.HasPrev <=> i > 1
                   /\ pp.HasNext <=> i < Len(L)
                   /\ pp.PrevVideo = IF i > 1 THEN L[i - 1].PlayerPage ELSE <<>>
                   /\ pp.NextVideo = IF i < Len(L) THEN L[i + 1].PlayerPage ELSE <<>>

\* C4, witness: a directory with three videos, the middle one linked both ways.
C4_Witness ==
  /\ Generated
  /\ \E d \in DOMAIN indexPages :
       /\ Len(indexPages[d].Videos) >= 3
       /\ playerPages[indexPages[d].Videos[2].RelativePath].HasPrev
       /\ playerPages[indexPages[d].Videos[2].RelativePath].HasNext
       /\ ~playerPages[indexPages[d].Videos[1].RelativePath].HasPrev

\* C5: a ConvertVideos that follows a ConvertVideos whose encoder runs all
\* succeeded, with no other change to the files in between than that run's,
\* builds an empty task list and starts no encoder.
C5_Idempotent ==
  (lastOp = "convert" /\ afterConvOk /\ convErr = "nil")
    => toConvert = <<>> /\ convLog = <<>>

\* a name that one of the patterns of Clean matches
GeneratedName(name) ==
  \/ name = INDEX_HTML
  \/ name = STYLE_CSS
  \/ HasSuffix(name, IndexSuffix)
  \/ HasPrefix(name, PlayerPrefix) /\ HasSuffix(name, HtmlSuffix)

C7_Isolation ==
  (lastOp = "convert" /\ convWalked /\ convErr # "walk") =>
    /\ convErr = "nil"
    /\ Len(convLog) = Len(toConvert)
    /\ \A i \in DOMAIN convLog : convLog[i].src = toConvert[i]
    /\ \A i \in DOMAIN convLog : ~convLog[i].ok => ~convLog[i].targetAfter
    /\ \A i \in DOMAIN convLog :
         (/\ ~convLog[i].ok
          /\ \A j \in DOMAIN convLog : j > i => convLog[j].target # convLog[i].target)
         => ~Stat(fs, convLog[i].target)
    /\ \A i, j \in DOMAIN toConvert : i < j => PathLess(toConvert[i], toConvert[j])

\* C7, witness: a failed task followed by a task that succeeded.
C7_Witness ==
  /\ lastOp = "convert"
  /\ convErr = "nil"
  /\ \E i, j \in DOMAIN convLog :
       /\ i < j
       /\ ~convLog[i].ok
       /\ ~convLog[i].targetAfter
       /\ convLog[j].ok
       /\ convLog[j].targetAfter

\* the checks of ConvertVideos cannot pass with these arguments: no ffmpeg, or
\* --gpu and a GPU probe that fails
ProbeFails(a) ==
  \/ ~a.env.ffmpeg
  \/ /\ a.useGPU
     /\ \/ ~a.env.smi
        \/ ~a.env.query
        \/ ~a.env.device
        \/ ~a.env.encoders
        \/ ~a.env.nvenc

\* C8: when ffmpeg is not found, or --gpu is given and the GPU probe fails,
\* ConvertVideos returns an error before the walk and starts no encoder in
\* either profile, and the run of main ends with exit code 1 and no page.
C8_Fatal ==
  (lastOp = "convert" /\ ProbeFails(convArgs)) =>
    /\ convErr \notin {"nil", "none", "walk"}
    /\ ~convWalked
    /\ toConvert = <<>>
    /\ convLog = <<>>
    /\ exitCode = 1
    /\ genErr = "none"
    /\ written = <<>>
    /\ indexPages = <<>>
    /\ playerPages = <<>>

\* C8, witness: --gpu with an ffmpeg that lists no h264_nvenc, on a root with a
\* video that needs conversion.
C8_Witness ==
  /\ lastOp = "convert"
  /\ convArgs.useGPU
  /\ convArgs.env.ffmpeg
  /\ ~convArgs.env.nvenc
  /\ exitCode = 1
  /\ convLog = <<>>
  /\ \E p \in DOMAIN fs : Visible(p) /\ ToLower(Ext(Base(p))) \in needsConversion

\* C9: in one Generate, distinct catalog videos have distinct player-page
\* names, distinct required directories have distinct listing names, no listing
\* name is a player name, and no file is written twice.
C9_NoCollision ==
  Generated =>
    /\ \A i, j \in DOMAIN videos :
         i # j => videos[i].PlayerPage # videos[j].PlayerPage
    /\ \A d, e \in DOMAIN indexPages :
         d # e => indexPages[d].FileName # indexPages[e].FileName
    /\ \A d \in DOMAIN indexPages : \A i \in DOMAIN videos :
         indexPages[d].FileName # videos[i].PlayerPage
    /\ \A o \in DOMAIN written : written[o] = 1

\* a .mp4 file outside hidden directories with a sibling of the same base name
\* and an original extension
IsConverted(f, p) ==
  /\ Visible(p)
  /\ ToLower(Ext(Base(p))) = MP4
  /\ \E k \in DOMAIN originalExtensions :
       Sibling(p, Stem(Base(p)) \o originalExtensions[k]) \in DOMAIN f

\* C10: a successful CleanConverted deletes exactly the .mp4 files outside
\* hidden directories that have a sibling of the same base name with extension
\* .avi, .mkv, .mov, .wmv or .flv: none of them remains, and no other file is
\* removed or changed.
C10_CleanConverted ==
  [][(lastOp' = "cleanConverted" /\ cleanErr' = "nil") =>
       /\ DOMAIN fs' \subseteq DOMAIN fs
       /\ \A p \in DOMAIN fs' : fs'[p] = fs[p]
       /\ DOMAIN fs \ DOMAIN fs' = {p \in DOMAIN fs : IsConverted(fs, p)}
       /\ count' = Cardinality(DOMAIN fs \ DOMAIN fs')]_vars

\* a file below a directory, below the root, whose name begins with "."
UnderHidden(p) == \E k \in 1..(Len(p) - 1) : Head(p[k]) = Dot

\* C11: no file below a hidden directory is ever in the catalog or in the task
\* list of ConvertVideos, and none is deleted or changed by any operation;
\* after a scan, every playable file outside hidden directories that needs no
\* conversion is in the catalog, also when its own name begins with ".".
C11_HiddenSkip ==
  [][/\ \A i \in DOMAIN videos' : ~UnderHidden(videos'[i].RelativePath)
     /\ \A i \in DOMAIN toConvert' : ~UnderHidden(toConvert'[i])
     /\ \A p \in DOMAIN fs : UnderHidden(p) => p \in DOMAIN fs' /\ fs'[p] = fs[p]
     /\ Generated' =>
          \A p \in DOMAIN genPre'.fs :
            (/\ ~UnderHidden(p)
             /\ ToLower(Ext(Base(p))) \in videoExtensions \ needsConversion)
            => \E i \in DOMAIN videos' : videos'[i].RelativePath = p]_vars

\* C11, witness: a scan of a root with a video in a hidden directory, which is
\* not in the catalog, and a video named .e.mp4 in a directory that is not
\* hidden, which is.
C11_Witness ==
  /\ Generated
  /\ \E p \in DOMAIN fs :
       UnderHidden(p) /\ ToLower(Ext(Base(p))) \in videoExtensions
  /\ \E i \in DOMAIN videos : Head(videos[i].FileName) = Dot

\* C12: when the walk of the scan reports an error, or the scan finds no
\* video, Generate returns an error, the run ends with exit code 1, and no
\* listing page, player page or stylesheet has been written: a run without
\* --convert leaves every file as it was.
C12_AllOrNothing ==
  [][(genErr' \in {"scan", "no videos"}) =>
       /\ written' = <<>>
       /\ indexPages' = <<>>
       /\ playerPages' = <<>>
       /\ exitCode' = 1
       /\ lastOp' = "generate" => fs' = fs
       /\ \A p \in DOMAIN fs' \ DOMAIN fs : fs'[p].kind \notin {"index", "player"}
       /\ \A p \in DOMAIN fs' \cap DOMAIN fs :
            fs'[p].kind \in {"index", "player"} => fs'[p] = fs[p]]_vars

\* C12, witness: the walk failed after the scan had found a video.
C12_Witness ==
  /\ lastOp = "generate"
  /\ genErr = "scan"
  /\ Len(videos) >= 1
  /\ written = <<>>
  /\ exitCode = 1

\* the flattening F of a path: its segments joined with "_", then letters,
\* digits, "_" and "-" kept, each space turned into "_", the rest dropped
Flatten(segs) == sanitizeFileName(ReplaceSep(segs))

\* the listing filename of a directory made with F
FlatIndexName(d) == IF d = <<>> THEN INDEX_HTML ELSE Flatten(d) \o IndexSuffix

\* C13: the listing filename of every non-root required directory is
\* F(path)_index.html, the player filename of every video is
\* player_F(path without extension).html, and the subdirectory entries, the
\* parent links and the back links name listing pages with the same F.
C13_OneFlattening ==
  Generated =>
    /\ \A d \in DOMAIN indexPages :
         /\ indexPages[d].FileName = FlatIndexName(d)
         /\ d # <<>> => indexPages[d].ParentPath = FlatIndexName(Dir(d))
         /\ \A k \in DOMAIN indexPages[d].Directories :
              indexPages[d].Directories[k].Path
                = FlatIndexName(d \o <<indexPages[d].Directories[k].Name>>)
    /\ \A i \in DOMAIN videos :
         /\ videos[i].PlayerPage
              = PlayerPrefix
                  \o Flatten(Dir(videos[i].RelativePath)
                               \o <<Stem(Base(videos[i].RelativePath))>>)
                  \o HtmlSuffix
         /\ playerPages[videos[i].RelativePath].BackLink
              = FlatIndexName(videos[i].Directory)

\* the required directories that are dir plus one segment
Children(dir) ==
  {c \in Closure : Len(c) = Len(dir) + 1 /\ SubSeq(c, 1, Len(dir)) = dir}

\* C14: the listing page of every required directory has exactly one
\* subdirectory entry per required directory that is an immediate child of it
\* and no other entry, the entries are sorted ascending by name, and the link
\* of each entry is the listing filename of the child's page, written in the
\* same run.
C14_SubDirs ==
  Generated =>
    \A d \in DOMAIN indexPages :
      LET ds == indexPages[d].Directories
      IN  /\ {ds[k].Name : k \in DOMAIN ds} = {c[Len(c)] : c \in Children(d)}
          /\ \A k \in 1..(Len(ds) - 1) : StrLess(ds[k].Name, ds[k + 1].Name)
          /\ \A k \in DOMAIN ds :
               /\ d \o <<ds[k].Name>> \in DOMAIN indexPages
               /\ ds[k].Path = indexPages[d \o <<ds[k].Name>>].FileName
               /\ OutPath(ds[k].Path) \in DOMAIN written
               /\ OutPath(ds[k].Path) \in DOMAIN fs

\* C14, witness: the root lists s and s_t, and the page of s lists t only.
C14_Witness ==
  /\ Generated
  /\ Len(indexPages[<<>>].Directories) = 2
  /\ \E d \in DOMAIN indexPages :
       /\ Len(d) = 1
       /\ Len(indexPages[d].Directories) = 1
       /\ \E e \in DOMAIN indexPages :
            Len(e) = 1 /\ e # d /\ HasPrefix(e[1], d[1])

\* C15: every record of the catalog, whatever the letter case of the file's
\* extension, has the lower-cased extension as Extension, the filename without
\* its extension as display name and the relative parent path (empty for the
\* root) as owning directory, and is in the flat list and in the grouping of
\* its owning directory.
C15_Attributes ==
  \A i \in DOMAIN videos :
    /\ videos[i].FileName = Base(videos[i].RelativePath)
    /\ videos[i].Extension = ToLower(Ext(videos[i].FileName))
    /\ videos[i].Extension \in videoExtensions
    /\ videos[i].Name = Stem(videos[i].FileName)
    /\ videos[i].Directory = Dir(videos[i].RelativePath)
    /\ videos[i].Directory \in DOMAIN dirTree
    /\ \E j \in DOMAIN dirTree[videos[i].Directory] :
         dirTree[videos[i].Directory][j] = videos[i]

\* the file at path p is listed in the catalog
Listed(p) == \E i \in DOMAIN videos : videos[i].RelativePath = p

\* C16: in a run with --convert whose Generate succeeds, for every source
\* whose conversion succeeded in that run the catalog lists the converted
\* .mp4 and does not list the source.
C16_ConvertThenGenerate ==
  (lastOp = "convert" /\ Generated) =>
    \A i \in DOMAIN convLog :
      convLog[i].ok => Listed(convLog[i].target) /\ ~Listed(convLog[i].src)

\* C17: no two tasks of one ConvertVideos pass have the same target, so no
\* task overwrites or deletes the .mp4 an earlier task of the pass produced.
C17_TargetExclusive ==
  (lastOp = "convert" /\ convErr = "nil") =>
    /\ \A i, j \in DOMAIN convLog : i # j => convLog[i].target # convLog[j].target
    /\ \A i \in DOMAIN convLog :
         convLog[i].ok => /\ convLog[i].target \in DOMAIN fs
                          /\ fs[convLog[i].target] = [kind |-> "enc", of |-> convLog[i].src]

\* C18: the root is walked whatever its own name is: a scan whose walk reports
\* no error lists every playable file directly in the root that needs no
\* conversion, and a ConvertVideos that returns nil has taken as a task every
\* file directly in the root with a needs-conversion extension and no .mp4
\* beside it.
C18_RootAlwaysWalked ==
  /\ (lastOp = "generate" /\ genErr \in {"nil", "no videos"}) =>
       \A p \in DOMAIN fs :
         (Len(p) = 1 /\ ToLower(Ext(p[1])) \in videoExtensions \ needsConversion)
         => Listed(p)
  /\ (lastOp = "convert" /\ convErr = "nil") =>
       \A p \in DOMAIN fs :
         (Len(p) = 1 /\ Ext(p[1]) \in needsConversion)
         => \/ \E i \in DOMAIN toConvert : toConvert[i] = p
            \/ <<Stem(p[1]) \o MP4>> \in DOMAIN fs

\* C19: whenever a Generate on a Generator that may have been used before
\* returns nil, the catalog is what the tree holds now: every entry is a file
\* of the tree, and each file appears once in videos and once in the listing
\* group of its directory.
C19_CatalogRebuilt ==
  (calls >= 1 /\ genErr = "nil") =>
    /\ \A i \in DOMAIN videos : videos[i].RelativePath \in DOMAIN fs
    /\ \A i, j \in DOMAIN videos :
         i # j => videos[i].RelativePath # videos[j].RelativePath
    /\ \A d \in DOMAIN dirTree : \A i, j \in DOMAIN dirTree[d] :
         i # j => dirTree[d][i].RelativePath # dirTree[d][j].RelativePath

\* the (directory, display name) pairs of the catalog of a scan of f
CatalogEntries(f) ==
  LET vs == scanVideos(rootDir, f, 0, New).g.videos
  IN  {<<vs[i].Directory, vs[i].Name>> : i \in DOMAIN vs}

\* C20: a successful CleanConverted loses no gallery entry: every (directory,
\* display name) in the catalog of a scan made before it is in the catalog of
\* a scan made after it.
C20_NoEntryLost ==
  [][(lastOp' = "cleanConverted" /\ cleanErr' = "nil") =>
       CatalogEntries(fs) \subseteq CatalogEntries(fs')]_vars

====
